---------------------------- MODULE Spec2Model ----------------------------
(***************************************************************************)
(* Express JWT authentication and notes API (src/src/index.ts), its        *)
(* Sequelize model (src/src/models/Users.ts) and the storage it talks to.  *)
(*                                                                         *)
(* The service keeps one table, "Users".  The model class declares the     *)
(* attributes id, username, email and password (Users.ts 26-45); the       *)
(* handlers also filter on a column "userId" that the class does not       *)
(* declare.  Sequelize passes an undeclared name in a where clause through *)
(* to SQL, and drops an undeclared name from the values of create and      *)
(* update.  The table below therefore carries userId as a column of the    *)
(* database that the service can filter on but never writes.  A database   *)
(* without that column answers every owner-filtered statement with an      *)
(* error, which is one of the storage failures every step may draw.        *)
(***************************************************************************)
EXTENDS Integers, Sequences, FiniteSets, TLC

VARIABLES
    rows,       \* table "Users": primary key -> [username, email, password, userId]
    seq,        \* next value of the autoincrement sequence of Users.id
    issued,     \* tokens the service has returned from login
    shared,     \* shared-access relation: pairs <<note id, user id>>
    inflight,   \* handlers suspended at an await: slot -> the request, or NoPending
    deleted,    \* pairs <<id, subject>>: subject deleted id (204), no create of id since
    created,    \* the note a 201 answered, while no later request has been handled
    last        \* the response being written, with the request it answers

vars == <<rows, seq, issued, shared, inflight, deleted, created, last>>

---------------------------------------------------------------------------
(* Bounds *)

MaxId == 2          \* ids and subjects range over 1..MaxId
MaxInFlight == 2    \* requests suspended at an await at the same time

Ids == 1..MaxId
Slots == 1..MaxInFlight

Null == 0           \* SQL NULL / a field the JSON body does not carry (ids)
NoStr == ""         \* a string field the JSON body does not carry

Emails == {"a@x.com", "b@x.com"}
Passwords == {"p1", "p2"}

---------------------------------------------------------------------------
(* Token service *)

secretKey == "yourSecretKey"

NoPayload == [userId |-> Null]

NoToken == [kind |-> "absent", alg |-> "", key |-> "", payload |-> NoPayload]

\* signToken with a key other than the one verifyToken checks against.
signTokenOtherKey(data) ==
    [kind |-> "jwt", alg |-> "HS256", key |-> "otherKey", payload |-> data]

\* jwt.sign(data, secretKey, {algorithm: 'HS256'}).  The key field stands for
\* the HMAC: a signature verifies exactly under the key that made it.  The
\* iat claim jsonwebtoken adds is a timestamp and is left out.
signToken(data) ==
    [kind |-> "jwt", alg |-> "HS256", key |-> secretKey, payload |-> data]

\* verifyToken without the algorithms option: an unsigned token is accepted.
verifyTokenAnyAlgorithm(token) ==
    IF token.kind = "jwt" /\ (token.alg = "none" \/ token.key = secretKey)
    THEN token.payload
    ELSE [userId |-> Null]

\* jwt.verify(token, secretKey, {algorithms: ['HS256']}) inside try/catch:
\* the decoded payload, or null (NoPayload) for whatever verify throws on.
verifyToken(token) ==
    IF token.kind = "jwt" /\ token.alg \in {"HS256"} /\ token.key = secretKey
    THEN token.payload
    ELSE NoPayload

\* Tokens a client can make without the secret: malformed text, the wrong
\* HMAC key, the unsigned algorithm, an asymmetric algorithm.
ForgedTokens ==
    {[kind |-> "malformed", alg |-> "", key |-> "", payload |-> NoPayload]}
    \cup {[kind |-> "jwt", alg |-> a, key |-> "otherKey", payload |-> [userId |-> 1]] :
            a \in {"HS256", "RS256"}}
    \cup {[kind |-> "jwt", alg |-> "none", key |-> "", payload |-> [userId |-> 1]]}

\* What the Authorization header of a request can hold.
Presentable == {NoToken} \cup issued \cup ForgedTokens

\* authenticateToken: 401 without a token, 403 when verifyToken returns null,
\* 0 when next() is called.
authenticateToken(token) ==
    IF token.kind = "absent" THEN 401
    ELSE IF verifyToken(token) = NoPayload THEN 403
    ELSE 0

---------------------------------------------------------------------------
(* Requests *)

\* req.body after express.json(): the fields a body may carry.
NoBody ==
    [id |-> Null, username |-> NoStr, email |-> NoStr, password |-> NoStr,
     title |-> NoStr, content |-> NoStr, userId |-> Null, sharedWithUserId |-> Null]

\* Bodies sent to POST /api/auth/login: stored and unknown emails, right and
\* wrong passwords.
LoginBodies ==
    {[NoBody EXCEPT !.email = e, !.password = p] :
        e \in Emails \cup {"z@x.com"}, p \in Passwords}

NoteText == [NoBody EXCEPT !.title = "t1", !.content = "c1"]

\* Bodies sent to POST /api/notes and PUT /api/notes/:id: the documented note
\* body, one naming an owner, ones carrying the declared attributes, partial
\* updates of one attribute, and ones carrying an id.
NoteBodies ==
    {NoteText}
    \cup {[NoteText EXCEPT !.userId = u] : u \in Ids}
    \cup {[NoteText EXCEPT !.username = "jo", !.email = "a@x.com", !.password = "p1"],
          [NoteText EXCEPT !.username = "al", !.email = "b@x.com", !.password = "p2"]}
    \cup {[NoBody EXCEPT !.password = p] : p \in Passwords}
    \cup {[NoBody EXCEPT !.id = i] : i \in Ids}

ShareBodies == {[NoBody EXCEPT !.sharedWithUserId = t] : t \in Ids}

\* Queries of GET /api/search?q=, as the characters of q.
Queries == {<<"j">>, <<"l">>, <<"x">>, <<"_", "o">>}

Request(op, token, id, body, q) ==
    [op |-> op, token |-> token, sub |-> verifyToken(token).userId,
     id |-> id, body |-> body, q |-> q]

NoRequest == Request("none", NoToken, Null, NoBody, <<>>)

---------------------------------------------------------------------------
(* Storage: the Users table through the User model *)

\* The record a model instance serialises to: the declared attributes only
\* (timestamps left out).
NoRec == [id |-> Null, username |-> NoStr, email |-> NoStr, password |-> NoStr]

Json(tbl, i) ==
    [id |-> i, username |-> tbl[i].username, email |-> tbl[i].email,
     password |-> tbl[i].password]

\* The lookup of login with where: {email} alone.
CredMatchesEmailOnly(tbl, email, password) ==
    {i \in DOMAIN tbl : tbl[i].email = email}

\* where: {email, password}
CredMatches(tbl, email, password) ==
    {i \in DOMAIN tbl : tbl[i].email = email /\ tbl[i].password = password}

\* The note lookup with where: {id: noteId} alone.
OwnedByIdOnly(tbl, id, sub) ==
    id \in DOMAIN tbl

\* where: {id: noteId, userId: req.user.userId}
OwnedBy(tbl, id, sub) ==
    id \in DOMAIN tbl /\ tbl[id].userId = sub

\* User.findAll({where: {userId}}) serialised by res.json.
findAllNotes(tbl, sub) ==
    {Json(tbl, i) : i \in {j \in DOMAIN tbl : tbl[j].userId = sub}}

\* User.findOne({where: {id, userId}}): the instance, or null (NoRec).
findOneNote(tbl, id, sub) ==
    IF OwnedBy(tbl, id, sub) THEN Json(tbl, id) ELSE NoRec

\* User.findOne({where: {id}}).
findOneUser(tbl, id) ==
    IF id \in DOMAIN tbl THEN Json(tbl, id) ELSE NoRec

\* {...req.body, userId: req.user.userId}: the spread, then the override.
WithOwner(body, sub) == [body EXCEPT !.userId = sub]

\* Model.build / Model.update keep the values of declared attributes and
\* drop every other key (title, content, userId, sharedWithUserId).
Build(values) ==
    [id |-> values.id, username |-> values.username, email |-> values.email,
     password |-> values.password]

\* allowNull: false on username, email and password.
Valid(v) ==
    v.username # NoStr /\ v.email # NoStr /\ v.password # NoStr

\* The row an INSERT of the built values stores: the userId column is not
\* among the inserted columns and stays NULL.
InsertedRow(values) ==
    [username |-> Build(values).username, email |-> Build(values).email,
     password |-> Build(values).password, userId |-> Null]

\* The id an INSERT stores under: the given one, else the sequence's next.
InsertId(values, nextval) ==
    IF Build(values).id # Null THEN Build(values).id ELSE nextval

\* The row an UPDATE leaves: declared attributes the body carries replace the
\* stored ones; userId is not among the updated columns.
UpdatedRow(old, body) ==
    [username |-> IF Build(body).username # NoStr THEN Build(body).username
                  ELSE old.username,
     email |-> IF Build(body).email # NoStr THEN Build(body).email ELSE old.email,
     password |-> IF Build(body).password # NoStr THEN Build(body).password
                  ELSE old.password,
     userId |-> old.userId]

\* The id an UPDATE leaves the row under: id is a declared attribute, so a
\* body that carries one rewrites the primary key.
UpdatedId(id, body) ==
    IF Build(body).id # Null THEN Build(body).id ELSE id

\* The table after UPDATE ... WHERE id = :id AND userId = :sub.
UpdatedTable(tbl, id, body) ==
    [i \in (DOMAIN tbl \ {id}) \cup {UpdatedId(id, body)} |->
        IF i = UpdatedId(id, body) THEN UpdatedRow(tbl[id], body) ELSE tbl[i]]

\* The table after DELETE ... WHERE id = :id AND userId = :sub.
DestroyedTable(tbl, id) ==
    [i \in DOMAIN tbl \ {id} |-> tbl[i]]

\* The characters of a stored username.
Letters(u) ==
    CASE u = "jo" -> <<"j", "o">>
      [] u = "al" -> <<"a", "l">>
      [] OTHER -> <<>>

\* SQL LIKE: % matches any run of characters, _ any one character.
RECURSIVE Like(_, _)
Like(p, s) ==
    IF p = <<>> THEN s = <<>>
    ELSE IF Head(p) = "%" THEN Like(Tail(p), s) \/ (s # <<>> /\ Like(p, Tail(s)))
    ELSE IF s = <<>> THEN FALSE
    ELSE (Head(p) = "_" \/ Head(p) = Head(s)) /\ Like(Tail(p), Tail(s))

\* User.findAll({where: {username: {[Op.like]: `%${query}%`}}}) mapped to
\* {id, username, email}; the password is given as absent.
searchUsers(tbl, q) ==
    {[Json(tbl, i) EXCEPT !.password = NoStr] :
        i \in {j \in DOMAIN tbl : Like(<<"%">> \o q \o <<"%">>, Letters(tbl[j].username))}}

\* addSharedUser adding the pair to the relation instead of throwing.
addSharedUserImplemented(rel, noteId, userId) ==
    [thrown |-> FALSE, rel |-> rel \cup {<<noteId, userId>>}]

\* User.addSharedUser: throw new Error("Method not implemented.").
addSharedUser(rel, noteId, userId) ==
    [thrown |-> TRUE, rel |-> rel]

---------------------------------------------------------------------------
(* Responses *)

\* status 0: no response was sent.  failed: the storage statement rejected.
Reply(req, status, failed, rec, list, token) ==
    [req |-> req, status |-> status, failed |-> failed, rec |-> rec,
     list |-> list, token |-> token]

\* The rows the database was provisioned with: user jo under id 1, with or
\* without user al under id 2.  The userId column of a provisioned row holds
\* NULL or the id of some subject.
SeedRow(i, o) ==
    IF i = 1
    THEN [username |-> "jo", email |-> "a@x.com", password |-> "p1", userId |-> o]
    ELSE [username |-> "al", email |-> "b@x.com", password |-> "p2", userId |-> o]

SeedTables ==
    {[i \in 1..n |-> SeedRow(i, o[i])] :
        n \in 1..2, o \in [1..2 -> {Null} \cup Ids]}

\* A handler suspended at `await User.update(...)`.  owned records whether
\* the note was stored under the subject when the request arrived.
Pending(req, owned) == [req |-> req, owned |-> owned]

NoPending == Pending(NoRequest, FALSE)

NoCreate == [sub |-> Null, id |-> Null, title |-> NoStr, content |-> NoStr]

NoReply == Reply(NoRequest, 0, FALSE, NoRec, {}, NoToken)

\* No response is being written: the server is ready for the next request.
Ready == last = NoReply

Init ==
    /\ rows \in SeedTables
    /\ seq = Cardinality(DOMAIN rows) + 1
    /\ issued = {}
    /\ shared = {}
    /\ inflight = [s \in Slots |-> NoPending]
    /\ deleted = {}
    /\ created = NoCreate
    /\ last = NoReply

---------------------------------------------------------------------------
(* Handlers *)

\* POST /api/auth/login, registered before app.use(authenticateToken).
Login ==
    /\ Ready
    /\ \E body \in LoginBodies, fail \in BOOLEAN :
        LET req == Request("login", NoToken, Null, body, <<>>)
            found == CredMatches(rows, body.email, body.password)
        IN  /\ created' = NoCreate
            /\ UNCHANGED <<rows, seq, shared, inflight, deleted>>
            /\ IF fail
               THEN /\ last' = Reply(req, 500, TRUE, NoRec, {}, NoToken)
                    /\ UNCHANGED issued
               ELSE IF found = {}
               THEN /\ last' = Reply(req, 401, FALSE, NoRec, {}, NoToken)
                    /\ UNCHANGED issued
               ELSE \E i \in found :
                    LET token == signToken([userId |-> i])
                    IN  /\ last' = Reply(req, 200, FALSE, NoRec, {}, token)
                        /\ issued' = issued \cup {token}

\* The routes registered after app.use(authenticateToken).
GatedOps == {"list", "get", "create", "put", "delete", "share", "search"}

\* authenticateToken answers 401 or 403 itself and does not call next().
GateReject ==
    /\ Ready
    /\ \E token \in Presentable, op \in GatedOps :
        /\ authenticateToken(token) # 0
        /\ last' = Reply(Request(op, token, Null, NoBody, <<>>),
                         authenticateToken(token), FALSE, NoRec, {}, NoToken)
        /\ created' = NoCreate
        /\ UNCHANGED <<rows, seq, issued, shared, inflight, deleted>>

\* GET /api/notes
List ==
    /\ Ready
    /\ \E token \in Presentable, fail \in BOOLEAN :
        LET req == Request("list", token, Null, NoBody, <<>>)
        IN  /\ authenticateToken(token) = 0
            /\ last' = IF fail THEN Reply(req, 500, TRUE, NoRec, {}, NoToken)
                       ELSE Reply(req, 200, FALSE, NoRec,
                                  findAllNotes(rows, req.sub), NoToken)
            /\ created' = NoCreate
            /\ UNCHANGED <<rows, seq, issued, shared, inflight, deleted>>

\* GET /api/notes/:id
Get ==
    /\ Ready
    /\ \E token \in Presentable, id \in Ids, fail \in BOOLEAN :
        LET req == Request("get", token, id, NoBody, <<>>)
            note == findOneNote(rows, id, req.sub)
        IN  /\ authenticateToken(token) = 0
            /\ last' = IF fail THEN Reply(req, 500, TRUE, NoRec, {}, NoToken)
                       ELSE IF note = NoRec
                       THEN Reply(req, 404, FALSE, NoRec, {}, NoToken)
                       ELSE Reply(req, 200, FALSE, note, {}, NoToken)
            /\ created' = NoCreate
            /\ UNCHANGED <<rows, seq, issued, shared, inflight, deleted>>

\* POST /api/notes
Create ==
    /\ Ready
    /\ \E token \in Presentable, body \in NoteBodies, fail \in BOOLEAN :
        LET req == Request("create", token, Null, body, <<>>)
            values == WithOwner(body, req.sub)
            newId == InsertId(values, seq)
        IN  /\ authenticateToken(token) = 0
            /\ newId \in Ids
            /\ UNCHANGED <<issued, shared, inflight>>
            /\ IF fail \/ ~Valid(Build(values))
               THEN \* the statement is not run: connection error or
                    \* validation error, caught
                    /\ last' = Reply(req, 500, fail, NoRec, {}, NoToken)
                    /\ created' = NoCreate
                    /\ UNCHANGED <<rows, seq, deleted>>
               ELSE /\ seq' = IF Build(values).id = Null THEN seq + 1 ELSE seq
                    /\ IF newId \in DOMAIN rows
                       THEN \* unique violation on the primary key, caught
                            /\ last' = Reply(req, 500, TRUE, NoRec, {}, NoToken)
                            /\ created' = NoCreate
                            /\ UNCHANGED <<rows, deleted>>
                       ELSE /\ rows' = [i \in DOMAIN rows \cup {newId} |->
                                        IF i = newId THEN InsertedRow(values)
                                        ELSE rows[i]]
                            /\ deleted' = {d \in deleted : d[1] # newId}
                            /\ created' = [sub |-> req.sub, id |-> newId,
                                           title |-> body.title,
                                           content |-> body.content]
                            /\ last' = Reply(req, 201, FALSE, Json(rows', newId),
                                             {}, NoToken)

\* The storage statement and the continuation of PUT /api/notes/:id.
PutApply(req, fail) ==
    IF fail
    THEN /\ last' = Reply(req, 500, TRUE, NoRec, {}, NoToken)
         /\ UNCHANGED <<rows, deleted>>
    ELSE IF ~OwnedBy(rows, req.id, req.sub)
    THEN \* updatedRowsCount === 0
         /\ last' = Reply(req, 404, FALSE, NoRec, {}, NoToken)
         /\ UNCHANGED <<rows, deleted>>
    ELSE IF UpdatedId(req.id, req.body) # req.id
            /\ UpdatedId(req.id, req.body) \in DOMAIN rows
    THEN \* unique violation on the primary key, caught
         /\ last' = Reply(req, 500, TRUE, NoRec, {}, NoToken)
         /\ UNCHANGED <<rows, deleted>>
    ELSE /\ rows' = UpdatedTable(rows, req.id, req.body)
         /\ last' = Reply(req, 204, FALSE, NoRec, {}, NoToken)
         /\ UNCHANGED deleted

\* PUT /api/notes/:id, served without another request in between.
Put ==
    /\ Ready
    /\ \E token \in Presentable, id \in Ids, body \in NoteBodies, fail \in BOOLEAN :
        /\ authenticateToken(token) = 0
        /\ PutApply(Request("put", token, id, body, <<>>), fail)
        /\ created' = NoCreate
        /\ UNCHANGED <<seq, issued, shared, inflight>>

\* DELETE /api/notes/:id
Delete ==
    /\ Ready
    /\ \E token \in Presentable, id \in Ids, fail \in BOOLEAN :
        LET req == Request("delete", token, id, NoBody, <<>>)
        IN  /\ authenticateToken(token) = 0
            /\ created' = NoCreate
            /\ UNCHANGED <<seq, issued, shared, inflight>>
            /\ IF fail
               THEN /\ last' = Reply(req, 500, TRUE, NoRec, {}, NoToken)
                    /\ UNCHANGED <<rows, deleted>>
               ELSE IF ~OwnedBy(rows, id, req.sub)
               THEN \* deletedRowsCount === 0
                    /\ last' = Reply(req, 404, FALSE, NoRec, {}, NoToken)
                    /\ UNCHANGED <<rows, deleted>>
               ELSE /\ rows' = DestroyedTable(rows, id)
                    /\ deleted' = deleted \cup {<<id, req.sub>>}
                    /\ last' = Reply(req, 204, FALSE, NoRec, {}, NoToken)

\* GET /api/search: the handler has no try/catch, so a rejected findAll
\* rejects the promise the handler returns.  Express 4 drops that promise and
\* no response is sent (status 0); Express 5 hands the rejection to its
\* default error handler, which answers 500.  The sources do not pin the
\* version, so either may happen.
Search ==
    /\ Ready
    /\ \E token \in Presentable, q \in Queries, fail \in BOOLEAN, unhandled \in {0, 500} :
        LET req == Request("search", token, Null, NoBody, q)
        IN  /\ authenticateToken(token) = 0
            /\ last' = IF fail THEN Reply(req, unhandled, TRUE, NoRec, {}, NoToken)
                       ELSE Reply(req, 200, FALSE, NoRec, searchUsers(rows, q), NoToken)
            /\ created' = NoCreate
            /\ UNCHANGED <<rows, seq, issued, shared, inflight, deleted>>

\* POST /api/notes/:id/share, served without another request in between:
\* both lookups and the call of addSharedUser.
Share ==
    /\ Ready
    /\ \E token \in Presentable, id \in Ids, body \in ShareBodies, fail \in BOOLEAN :
        LET req == Request("share", token, id, body, <<>>)
            note == findOneNote(rows, id, req.sub)
            userToShareWith == findOneUser(rows, body.sharedWithUserId)
            r == addSharedUser(shared, note.id, userToShareWith.id)
        IN  /\ authenticateToken(token) = 0
            /\ created' = NoCreate
            /\ UNCHANGED <<rows, seq, issued, inflight, deleted>>
            /\ IF fail
               THEN /\ last' = Reply(req, 500, TRUE, NoRec, {}, NoToken)
                    /\ UNCHANGED shared
               ELSE IF note = NoRec \/ userToShareWith = NoRec
               THEN /\ last' = Reply(req, 404, FALSE, NoRec, {}, NoToken)
                    /\ UNCHANGED shared
               ELSE IF r.thrown
               THEN /\ last' = Reply(req, 500, FALSE, NoRec, {}, NoToken)
                    /\ UNCHANGED shared
               ELSE /\ last' = Reply(req, 200, FALSE, NoRec, {}, NoToken)
                    /\ shared' = r.rel

\* The response has been written out; the server waits for the next request.
ResponseSent ==
    /\ ~Ready
    /\ last' = NoReply
    /\ UNCHANGED <<rows, seq, issued, shared, inflight, deleted, created>>

Next ==
    \/ Login
    \/ GateReject
    \/ List
    \/ Get
    \/ Create
    \/ Put
    \/ Delete
    \/ Share
    \/ Search
    \/ ResponseSent

Spec == Init /\ [][Next]_vars

---------------------------------------------------------------------------
(* Concurrent PUT requests: each handler runs to its await, the storage    *)
(* runs the UPDATE statements one at a time in any order, and each handler *)
(* resumes with the count of its own statement.                            *)

\* Every provisioned user has logged in.
InitConc ==
    /\ rows \in SeedTables
    /\ seq = Cardinality(DOMAIN rows) + 1
    /\ issued = {signToken([userId |-> i]) : i \in DOMAIN rows}
    /\ shared = {}
    /\ inflight = [s \in Slots |-> NoPending]
    /\ deleted = {}
    /\ created = NoCreate
    /\ last = NoReply

\* PUT /api/notes/:id up to `await User.update(...)`.
PutReceive(s) ==
    /\ Ready
    /\ \E token \in Presentable, id \in Ids, body \in NoteBodies :
        LET req == Request("put", token, id, body, <<>>)
        IN  /\ inflight[s] = NoPending
            /\ authenticateToken(token) = 0
            /\ inflight' = [inflight EXCEPT ![s] = Pending(req, OwnedBy(rows, id, req.sub))]
            /\ UNCHANGED <<rows, seq, issued, shared, deleted, created, last>>

\* The UPDATE of one suspended handler runs and the handler resumes.
PutDb(s) ==
    /\ Ready
    /\ inflight[s] # NoPending
    /\ \E fail \in BOOLEAN :
        /\ PutApply(inflight[s].req, fail)
        /\ inflight' = [inflight EXCEPT ![s] = NoPending]
        /\ created' = NoCreate
        /\ UNCHANGED <<seq, issued, shared>>

NextConc ==
    \/ \E s \in Slots : PutReceive(s)
    \/ \E s \in Slots : PutDb(s)
    \/ ResponseSent

SpecConc == InitConc /\ [][NextConc]_vars

---------------------------------------------------------------------------
(* Properties *)

\* The step that answered the request now in `last`: every handler step
\* starts from Ready and writes a response.
Answered == Ready /\ last' # NoReply

Sub == last'.req.sub
NoteId == last'.req.id

\* C1: a GET, PUT or DELETE by a subject on the id of a stored note whose
\* owner is not that subject is answered 404 (500 when the storage statement
\* itself fails), and the table is left as it was.
OwnerIsolation ==
    [][(/\ Answered
        /\ last'.req.op \in {"get", "put", "delete"}
        /\ Sub # Null
        /\ NoteId \in DOMAIN rows
        /\ rows[NoteId].userId # Sub)
       => (/\ rows' = rows
           /\ IF last'.failed THEN last'.status = 500 ELSE last'.status = 404)]_vars

\* A DELETE by a subject that does not own the stored note has been answered 404.
OwnerIsolationWitness ==
    /\ last.req.op = "delete"
    /\ last.status = 404
    /\ last.req.id \in DOMAIN rows
    /\ rows[last.req.id].userId # last.req.sub

\* C2: a request to a route behind the gate without a token is answered 401,
\* one with a token the service did not issue is answered 403, both without
\* any change of state; a handler behind the gate answers only requests that
\* carry an issued token; login is answered on its credentials without a token.
GateFailsClosed ==
    [][Answered =>
        /\ (last'.req.op \in GatedOps /\ last'.req.token = NoToken)
            => (/\ last'.status = 401
                /\ UNCHANGED <<rows, seq, issued, shared, inflight, deleted>>)
        /\ (last'.req.op \in GatedOps /\ last'.req.token \notin issued \cup {NoToken})
            => (/\ last'.status = 403
                /\ UNCHANGED <<rows, seq, issued, shared, inflight, deleted>>)
        /\ (last'.req.op \in GatedOps /\ last'.status \notin {401, 403})
            => (last'.req.token \in issued /\ Sub = last'.req.token.payload.userId)
        /\ (/\ last'.req.op = "login"
            /\ ~last'.failed
            /\ CredMatches(rows, last'.req.body.email, last'.req.body.password) # {})
            => (last'.req.token = NoToken /\ last'.status = 200)]_vars

\* A token of the unsigned algorithm has been answered 403.
GateFailsClosedWitness ==
    /\ last.req.op \in GatedOps
    /\ last.req.token.alg = "none"
    /\ last.status = 403

\* C3: a login with the email and password of a stored record returns a
\* token (the storage statement not failing); the token passes the gate, and
\* verifying it gives the id of a stored record with exactly that email and
\* password.
LoginTokenRoundTrip ==
    [][(/\ Answered
        /\ last'.req.op = "login"
        /\ ~last'.failed
        /\ CredMatches(rows, last'.req.body.email, last'.req.body.password) # {})
       => (/\ last'.status = 200
           /\ last'.token \in issued'
           /\ authenticateToken(last'.token) = 0
           /\ verifyToken(last'.token).userId
                 \in CredMatches(rows, last'.req.body.email,
                                 last'.req.body.password))]_vars

\* A login has returned a token while a second record with other credentials
\* is stored.
LoginTokenRoundTripWitness ==
    /\ last.req.op = "login"
    /\ last.status = 200
    /\ \E i \in DOMAIN rows : i # verifyToken(last.token).userId
                               /\ rows[i].email # last.req.body.email

\* C4: a login whose email and password equal those of no stored record is
\* answered 401 and issues no token; one that matches a record is answered
\* 200 with a token (the storage statement not failing).
LoginRejectsBadCredentials ==
    [][(Answered /\ last'.req.op = "login" /\ ~last'.failed)
       => IF \A i \in DOMAIN rows : \/ rows[i].email # last'.req.body.email
                                    \/ rows[i].password # last'.req.body.password
          THEN last'.status = 401 /\ last'.token = NoToken /\ issued' = issued
          ELSE last'.status = 200 /\ last'.token # NoToken
               /\ last'.token \in issued']_vars

\* A login with a stored email and another password has been answered 401.
LoginRejectsBadCredentialsWitness ==
    /\ last.req.op = "login"
    /\ last.status = 401
    /\ \E i \in DOMAIN rows : /\ rows[i].email = last.req.body.email
                               /\ rows[i].password # last.req.body.password

\* C5: whenever the storage statement of a handler fails, the request is
\* answered 500.
StorageFailureAnswered500 ==
    last.failed => last.status = 500

\* C6: once a subject has deleted an id (204) and no create has stored a row
\* under that id since, a DELETE of that id by that subject is answered 404
\* (the storage statement not failing) and leaves the table as it was.
DeleteIdempotent ==
    [][(/\ Answered
        /\ last'.req.op = "delete"
        /\ <<NoteId, Sub>> \in deleted
        /\ ~last'.failed)
       => (last'.status = 404 /\ rows' = rows)]_vars

\* The title and content of a serialised record.
TitleOf(rec) == IF "title" \in DOMAIN rec THEN rec.title ELSE NoStr
ContentOf(rec) == IF "content" \in DOMAIN rec THEN rec.content ELSE NoStr

\* C7: a create answered 201 has stored a note owned by the requesting
\* subject, and a GET of the returned id by that subject as the next request
\* is answered 200 with the title and content that were submitted.
CreateGetRoundTrip ==
    [][Answered =>
        /\ (last'.req.op = "create" /\ last'.status = 201)
            => (/\ last'.rec.id \in DOMAIN rows'
                /\ rows'[last'.rec.id].userId = Sub)
        /\ (/\ last'.req.op = "get"
            /\ created # NoCreate
            /\ Sub = created.sub
            /\ NoteId = created.id
            /\ ~last'.failed)
            => (/\ last'.status = 200
                /\ TitleOf(last'.rec) = created.title
                /\ ContentOf(last'.rec) = created.content)]_vars

ShareNeverSucceeds ==
    [][(Answered /\ last'.req.op = "share" /\ Sub # Null)
       => (/\ last'.status # 200
           /\ shared' = shared
           /\ rows' = rows
           /\ last'.status =
                 IF last'.failed THEN 500
                 ELSE IF ~OwnedBy(rows, NoteId, Sub) THEN 404
                 ELSE IF last'.req.body.sharedWithUserId \notin DOMAIN rows THEN 404
                 ELSE 500)]_vars

\* A share of an owned note with a stored user has reached addSharedUser
\* and been answered 500.
ShareNeverSucceedsWitness ==
    /\ last.req.op = "share"
    /\ last.status = 500
    /\ ~last.failed
    /\ OwnedBy(rows, last.req.id, last.req.sub)
    /\ last.req.body.sharedWithUserId \in DOMAIN rows

\* C10: a create answered 201 has stored the note under the requesting
\* subject as owner, and no PUT changes the id or the owner of any row.
OwnershipImmutable ==
    [][Answered =>
        /\ (last'.req.op = "create" /\ last'.status = 201)
            => (\A i \in DOMAIN rows' \ DOMAIN rows : rows'[i].userId = Sub)
        /\ (last'.req.op = "put")
            => (\A i \in DOMAIN rows :
                    i \in DOMAIN rows' /\ rows'[i].userId = rows[i].userId)]_vars

=============================================================================
